---- MODULE Spec2Model ----
(***************************************************************************)
(* Model of the resilient ARI event-stream worker                          *)
(*   handler.connectWebSocketAndStartStasis   (examples/main.go)           *)
(* and of the timestamp codec                                              *)
(*   StasisTimestampEvent.UnmarshalJSON       (api_websocket.go).          *)
(*                                                                         *)
(* The worker is one goroutine.  Every place where it can be observed or   *)
(* interleaved with the cancellation of its context is a value of pc:      *)
(*   "loop"        the outer select                       (main.go:92)     *)
(*   "dial"        the default branch was taken, WebsocketConnect is       *)
(*                 about to be called                     (main.go:98)     *)
(*   "wait_dial"   blocked in the select after a failed dial (main.go:102) *)
(*   "recv"        the select of the receive loop         (main.go:120)    *)
(*   "reading"     blocked in wsConn.ReadMessage()        (main.go:126)    *)
(*   "decode"      a frame was returned, json.Unmarshal is about to run    *)
(*                                                        (main.go:132)    *)
(*   "wait_reconn" blocked in the reconnect select        (main.go:156)    *)
(*   "done"        the function has returned                               *)
(*   "panicked"    the goroutine is unwinding from a run-time panic        *)
(* Durations are counted in seconds.                                       *)
(***************************************************************************)
EXTENDS Integers, Sequences, FiniteSets, TLC

\* ------------------------------------------------------------------ bounds
\* The environment produces at most MaxFails consecutive failures, MaxConns
\* successful dials and MaxFrames frames per session before the context is
\* cancelled; the observer log keeps the first MaxObs events.
MaxFails == 8
MaxConns == 2
MaxFrames == 3
MaxObs == 7

\* --------------------------------------------------------------- constants
initialDelay == 1
maxDelay == 60

VARIABLES
  pc,               \* position of the worker goroutine
  delay,            \* local variable delay
  canceled,         \* ctx.Done() is closed
  wsConn,           \* local variable wsConn: index into closes, 0 for nil
  closes,           \* closes[i]: number of Close() calls made on the i-th
                    \* connection WebsocketConnect has returned
  deferred,         \* the function's stack of deferred wsConn.Close() calls
  message,          \* the frame ReadMessage returned, not yet decoded
  nread,            \* frames ReadMessage has returned on the held connection
  sink,             \* what the per-frame handling of this session reported
  fails,            \* history: failures since the last successful dial
  obs,              \* history: the first MaxObs observer (log) events
  cancelPc,         \* history: pc at the moment the context was cancelled
  dialsAfterCancel, \* history: WebsocketConnect calls begun after the cancel
  event,            \* local variable event: the last envelope decoded
  readsAfterCancel  \* history: frames ReadMessage returned after the cancel

vars == <<pc, delay, canceled, wsConn, closes, deferred, message, nread,
          sink, fails, obs, cancelPc, dialsAfterCancel, event,
          readsAfterCancel>>

\* ------------------------------------------------------- pure functions
min(a, b) == IF a < b THEN a ELSE b

NextDelayUncapped(d) == 2 * d
NextDelayTripled(d) == min(3 * d, maxDelay)
NextDelayLinear(d) == min(d + 1, maxDelay)
\* delay = min(2*delay, maxDelay)
NextDelay(d) == min(2 * d, maxDelay)

ResetDelayMax == maxDelay
ResetDelayKept == delay
\* delay = initialDelay
ResetDelay == initialDelay

RECURSIVE Pow2(_)
Pow2(n) == IF n <= 0 THEN 1 ELSE 2 * Pow2(n - 1)

\* ------------------------------------------------------------ the codec
\* A raw JSON value is a sequence of tokens.  The quote and a digit are one
\* byte each; "date", "time", ".ms" and "zone" stand for the runs of bytes
\* that the matching element of the layout accepts.
Quote == "\""
Absent == <<>>

eventTimeLayout == <<"date", "T", "time", ".ms", "zone">>

TimestampRaws ==
  { <<Quote, "date", "T", "time", ".ms", "zone", Quote>>,  \* "2024-01-02T03:04:05.123+0000"
    <<Quote, "date", " ", "time", Quote>>,                 \* "2024-01-02 03:04:05"
    <<Quote, "date", "T", "time", ".ms", "Z", Quote>>,     \* "...05.123Z"
    <<Quote, Quote>>,                                      \* ""
    <<"5">>,                                               \* 5
    <<"5", "5">>,                                          \* 55
    <<"n", "u", "l", "l">>,                                \* null
    <<"{", "}">>,                                          \* {}
    Absent }                                               \* key not present

\* time.Parse(eventTimeLayout, s)
TimeParse(s) == IF s = eventTimeLayout THEN "ok" ELSE "err"

\* (s *StasisTimestampEvent) UnmarshalJSON(b): b[1:len(b)-1] panics when
\* len(b) < 2, otherwise the stripped text is parsed against the layout.
UnmarshalJSON(b) ==
  IF Len(b) < 2 THEN "panic"
  ELSE TimeParse(SubSeq(b, 2, Len(b) - 1))

Payloads ==
  { [json |-> FALSE, type |-> "", timestamp |-> Absent] } \cup
  { [json |-> TRUE, type |-> t, timestamp |-> r] :
      t \in {"StasisStart", ""}, r \in TimestampRaws }

NoMessage == [json |-> FALSE, type |-> "none", timestamp |-> Absent]

\* json.Unmarshal(message, &event): a syntax error is returned before any
\* field is decoded; the timestamp's UnmarshalJSON is called only when the
\* key is present, and its error (or panic) is the result of the call.
Unmarshal(m) ==
  IF ~m.json THEN "err"
  ELSE IF m.timestamp = Absent THEN "ok"
  ELSE UnmarshalJSON(m.timestamp)

\* the StasisEvent that json.Unmarshal fills in: Type is the value of the
\* "type" key, the empty string when the key is missing; Timestamp stays the
\* zero time when the "timestamp" key is missing
Envelope(m) ==
  [eventType |-> m.type,
   timestamp |-> IF m.timestamp = Absent THEN "zero" ELSE "parsed"]

NoEvent == [eventType |-> "none", timestamp |-> "zero"]

\* ------------------------------------------------------------- helpers
Waits == {"wait_dial", "wait_reconn"}
Connected == pc \in {"recv", "reading", "decode"}

\* one line written through h.Logger
Log(e) == IF Len(obs) < MaxObs THEN Append(obs, e) ELSE obs

DeliverFirst(s, e) == <<e>> \o s
\* the per-frame report: the decoded event or the parse error
Deliver(s, e) == Append(s, e)

\* wsConn.Close() on connection c
Close(cl, c) == [cl EXCEPT ![c] = @ + 1]

RunDefersTop(cl, ds) ==
  IF ds = <<>> THEN cl ELSE Close(cl, ds[Len(ds)])

\* the deferred calls run, last in first out, when the function returns or
\* unwinds
RECURSIVE RunDefers(_, _)
RunDefers(cl, ds) ==
  IF ds = <<>> THEN cl
  ELSE RunDefers(Close(cl, ds[Len(ds)]), SubSeq(ds, 1, Len(ds) - 1))

Init ==
  /\ pc = "loop"
  /\ delay = initialDelay
  /\ canceled = FALSE
  /\ wsConn = 0
  /\ closes = <<>>
  /\ deferred = <<>>
  /\ message = NoMessage
  /\ nread = 0
  /\ sink = <<>>
  /\ fails = 0
  /\ obs = <<>>
  /\ cancelPc = "none"
  /\ dialsAfterCancel = 0
  /\ event = NoEvent
  /\ readsAfterCancel = 0

\* ------------------------------------------------------- the environment
\* the owner of the context cancels it; the signal stays set
Cancel ==
  /\ ~canceled
  /\ canceled' = TRUE
  /\ cancelPc' = pc
  /\ UNCHANGED <<pc, delay, wsConn, closes, deferred, message, nread, sink,
                 fails, obs, dialsAfterCancel>>
  /\ UNCHANGED <<event, readsAfterCancel>>

\* ------------------------------------------------------------ the worker
LoopIgnoresCancel ==
  /\ pc = "loop"
  /\ canceled
  /\ pc' = "dial"
  /\ UNCHANGED <<delay, canceled, wsConn, closes, deferred, message, nread,
                 sink, fails, obs, cancelPc, dialsAfterCancel>>
  /\ UNCHANGED <<event, readsAfterCancel>>

\* case <-ctx.Done(): return
LoopDone ==
  /\ pc = "loop"
  /\ canceled
  /\ pc' = "done"
  /\ obs' = Log(<<"exit", 0>>)
  /\ closes' = RunDefers(closes, deferred)
  /\ deferred' = <<>>
  /\ UNCHANGED <<delay, canceled, wsConn, message, nread, sink, fails,
                 cancelPc, dialsAfterCancel>>
  /\ UNCHANGED <<event, readsAfterCancel>>

\* default:
LoopDefault ==
  /\ pc = "loop"
  /\ ~canceled
  /\ pc' = "dial"
  /\ UNCHANGED <<delay, canceled, wsConn, closes, deferred, message, nread,
                 sink, fails, obs, cancelPc, dialsAfterCancel>>
  /\ UNCHANGED <<event, readsAfterCancel>>

\* WebsocketConnect returns an error
DialFail ==
  /\ pc = "dial"
  /\ canceled \/ fails < MaxFails
  /\ wsConn' = 0
  /\ fails' = fails + 1
  /\ obs' = Log(<<"dial-fail", 0>>)
  /\ dialsAfterCancel' = IF canceled THEN dialsAfterCancel + 1
                         ELSE dialsAfterCancel
  /\ pc' = "wait_dial"
  /\ UNCHANGED <<delay, canceled, closes, deferred, message, nread, sink,
                 cancelPc>>
  /\ UNCHANGED <<event, readsAfterCancel>>

\* WebsocketConnect returns a connection; its Close is deferred and the
\* delay is reset
DialOk ==
  /\ pc = "dial"
  /\ canceled \/ Len(closes) < MaxConns
  /\ closes' = Append(closes, 0)
  /\ wsConn' = Len(closes) + 1
  /\ deferred' = Append(deferred, Len(closes) + 1)
  /\ delay' = ResetDelay
  /\ fails' = 0
  /\ nread' = 0
  /\ sink' = <<>>
  /\ obs' = Log(<<"dial-success", 0>>)
  /\ dialsAfterCancel' = IF canceled THEN dialsAfterCancel + 1
                         ELSE dialsAfterCancel
  /\ pc' = "recv"
  /\ UNCHANGED <<canceled, message, cancelPc>>
  /\ UNCHANGED <<event, readsAfterCancel>>

WaitDialIgnoresCancel ==
  /\ pc = "wait_dial"
  /\ canceled
  /\ delay' = NextDelay(delay)
  /\ pc' = "loop"
  /\ UNCHANGED <<canceled, wsConn, closes, deferred, message, nread, sink,
                 fails, obs, cancelPc, dialsAfterCancel>>
  /\ UNCHANGED <<event, readsAfterCancel>>

\* the select after a failed dial is woken by ctx.Done()
WaitDialCancel ==
  /\ pc = "wait_dial"
  /\ canceled
  /\ pc' = "done"
  /\ obs' = Log(<<"exit", 0>>)
  /\ closes' = RunDefers(closes, deferred)
  /\ deferred' = <<>>
  /\ UNCHANGED <<delay, canceled, wsConn, message, nread, sink, fails,
                 cancelPc, dialsAfterCancel>>
  /\ UNCHANGED <<event, readsAfterCancel>>

\* the select after a failed dial is woken by time.After(delay)
WaitDialTimer ==
  /\ pc = "wait_dial"
  /\ ~canceled
  /\ obs' = Log(<<"wait", delay>>)
  /\ delay' = NextDelay(delay)
  /\ pc' = "loop"
  /\ UNCHANGED <<canceled, wsConn, closes, deferred, message, nread, sink,
                 fails, cancelPc, dialsAfterCancel>>
  /\ UNCHANGED <<event, readsAfterCancel>>

RecvDoneLeaks ==
  /\ pc = "recv"
  /\ canceled
  /\ pc' = "done"
  /\ obs' = Log(<<"exit", 0>>)
  /\ UNCHANGED <<delay, canceled, wsConn, closes, deferred, message, nread,
                 sink, fails, cancelPc, dialsAfterCancel>>
  /\ UNCHANGED <<event, readsAfterCancel>>

RecvIgnoresCancel ==
  /\ pc = "recv"
  /\ canceled
  /\ pc' = "reading"
  /\ UNCHANGED <<delay, canceled, wsConn, closes, deferred, message, nread,
                 sink, fails, obs, cancelPc, dialsAfterCancel>>
  /\ UNCHANGED <<event, readsAfterCancel>>

\* receive loop, case <-ctx.Done(): defer wsConn.Close(); return
RecvDone ==
  /\ pc = "recv"
  /\ canceled
  /\ pc' = "done"
  /\ obs' = Log(<<"exit", 0>>)
  /\ closes' = RunDefers(closes, Append(deferred, wsConn))
  /\ deferred' = <<>>
  /\ UNCHANGED <<delay, canceled, wsConn, message, nread, sink, fails,
                 cancelPc, dialsAfterCancel>>
  /\ UNCHANGED <<event, readsAfterCancel>>

\* receive loop, default: ReadMessage is called
RecvDefault ==
  /\ pc = "recv"
  /\ ~canceled
  /\ pc' = "reading"
  /\ UNCHANGED <<delay, canceled, wsConn, closes, deferred, message, nread,
                 sink, fails, obs, cancelPc, dialsAfterCancel>>
  /\ UNCHANGED <<event, readsAfterCancel>>

\* ReadMessage returns the next frame of the connection
ReadFrame ==
  /\ pc = "reading"
  /\ canceled \/ nread < MaxFrames
  /\ \E p \in Payloads : message' = p
  /\ nread' = nread + 1
  /\ pc' = "decode"
  /\ UNCHANGED <<delay, canceled, wsConn, closes, deferred, sink, fails,
                 obs, cancelPc, dialsAfterCancel>>
  /\ readsAfterCancel' = IF canceled THEN readsAfterCancel + 1
                         ELSE readsAfterCancel
  /\ UNCHANGED event

ReadErrorHot ==
  /\ pc = "reading"
  /\ fails' = fails + 1
  /\ obs' = Log(<<"read-fail", 0>>)
  /\ pc' = "loop"
  /\ UNCHANGED <<delay, canceled, wsConn, closes, deferred, message, nread,
                 sink, cancelPc, dialsAfterCancel>>
  /\ UNCHANGED <<event, readsAfterCancel>>

\* ReadMessage returns an error: break receiveLoop
ReadError ==
  /\ pc = "reading"
  /\ fails' = fails + 1
  /\ obs' = Log(<<"read-fail", 0>>)
  /\ pc' = "wait_reconn"
  /\ UNCHANGED <<delay, canceled, wsConn, closes, deferred, message, nread,
                 sink, cancelPc, dialsAfterCancel>>
  /\ UNCHANGED <<event, readsAfterCancel>>

\* json.Unmarshal succeeds: the event is logged
DecodeOk ==
  /\ pc = "decode"
  /\ Unmarshal(message) = "ok"
  /\ sink' = Deliver(sink, <<nread, "envelope">>)
  /\ obs' = Log(<<"envelope", 0>>)
  /\ message' = NoMessage
  /\ pc' = "recv"
  /\ UNCHANGED <<delay, canceled, wsConn, closes, deferred, nread, fails,
                 cancelPc, dialsAfterCancel>>
  /\ event' = Envelope(message)
  /\ UNCHANGED readsAfterCancel

DecodeErrBreaks ==
  /\ pc = "decode"
  /\ Unmarshal(message) = "err"
  /\ sink' = Deliver(sink, <<nread, "decode-error">>)
  /\ obs' = Log(<<"decode-error", 0>>)
  /\ message' = NoMessage
  /\ pc' = "wait_reconn"
  /\ UNCHANGED <<delay, canceled, wsConn, closes, deferred, nread, fails,
                 cancelPc, dialsAfterCancel>>
  /\ event' = NoEvent
  /\ UNCHANGED readsAfterCancel

\* json.Unmarshal returns an error: it is logged and the loop goes on
DecodeErr ==
  /\ pc = "decode"
  /\ Unmarshal(message) = "err"
  /\ sink' = Deliver(sink, <<nread, "decode-error">>)
  /\ obs' = Log(<<"decode-error", 0>>)
  /\ message' = NoMessage
  /\ pc' = "recv"
  /\ UNCHANGED <<delay, canceled, wsConn, closes, deferred, nread, fails,
                 cancelPc, dialsAfterCancel>>
  /\ event' = NoEvent
  /\ UNCHANGED readsAfterCancel

\* UnmarshalJSON panics inside json.Unmarshal: nothing recovers, the
\* deferred calls run while the goroutine unwinds
DecodePanic ==
  /\ pc = "decode"
  /\ Unmarshal(message) = "panic"
  /\ message' = NoMessage
  /\ closes' = RunDefers(closes, deferred)
  /\ deferred' = <<>>
  /\ pc' = "panicked"
  /\ UNCHANGED <<delay, canceled, wsConn, nread, sink, fails, obs, cancelPc,
                 dialsAfterCancel>>
  /\ UNCHANGED <<event, readsAfterCancel>>

\* the reconnect select is woken by ctx.Done()
WaitReconnCancel ==
  /\ pc = "wait_reconn"
  /\ canceled
  /\ pc' = "done"
  /\ obs' = Log(<<"exit", 0>>)
  /\ closes' = RunDefers(closes, deferred)
  /\ deferred' = <<>>
  /\ UNCHANGED <<delay, canceled, wsConn, message, nread, sink, fails,
                 cancelPc, dialsAfterCancel>>
  /\ UNCHANGED <<event, readsAfterCancel>>

\* the reconnect select is woken by time.After(delay)
WaitReconnTimer ==
  /\ pc = "wait_reconn"
  /\ ~canceled
  /\ obs' = Log(<<"wait", delay>>)
  /\ delay' = NextDelay(delay)
  /\ pc' = "loop"
  /\ UNCHANGED <<canceled, wsConn, closes, deferred, message, nread, sink,
                 fails, cancelPc, dialsAfterCancel>>
  /\ UNCHANGED <<event, readsAfterCancel>>

Next ==
  \/ Cancel
  \/ LoopDone
  \/ LoopDefault
  \/ DialFail
  \/ DialOk
  \/ WaitDialCancel
  \/ WaitDialTimer
  \/ RecvDone
  \/ RecvDefault
  \/ ReadFrame
  \/ ReadError
  \/ DecodeOk
  \/ DecodeErr
  \/ DecodePanic
  \/ WaitReconnCancel
  \/ WaitReconnTimer

Spec == Init /\ [][Next]_vars

\* the worker's own steps that need nothing from the peer: the runtime
\* schedules the goroutine, timers expire, and the dial is bounded by the
\* dialer's handshake timeout and the context.  ReadMessage has no deadline
\* (none is set on the connection), so ReadFrame and ReadError happen only
\* when the peer sends or the connection breaks.
WorkerStep ==
  \/ LoopDone
  \/ LoopDefault
  \/ DialFail
  \/ DialOk
  \/ WaitDialCancel
  \/ WaitDialTimer
  \/ RecvDone
  \/ RecvDefault
  \/ DecodeOk
  \/ DecodeErr
  \/ DecodePanic
  \/ WaitReconnCancel
  \/ WaitReconnTimer

FairSpec == Init /\ [][Next]_vars /\ WF_vars(WorkerStep)

\* ---------------------------------------------------------- properties
IsPrefix(s, t) == Len(s) <= Len(t) /\ SubSeq(t, 1, Len(s)) = s
IsWait(e) == e[1] = "wait"
NotWait(e) == e[1] # "wait"
Stopped == pc \in {"done", "panicked"}

\* C1 (as claimed): the wait that follows the N-th consecutive failure
\* is min(d0 * 2^N, ceiling).
BackoffSequenceAsClaimed ==
  pc \in Waits => delay = min(initialDelay * Pow2(fails), maxDelay)

\* C1 (amended): after N >= 1 consecutive dial/read failures with no
\* successful dial in between, the wait before dial attempt N+1 is
\* min(d0 * 2^(N-1), ceiling).
BackoffSequence ==
  pc \in Waits =>
    /\ fails >= 1
    /\ delay = min(initialDelay * Pow2(fails - 1), maxDelay)

BackoffSequenceWitness ==
  pc \in Waits /\ fails = 8 /\ delay = maxDelay /\ ~canceled

\* C2: the wait that follows the read failure ending a session is the floor
\* delay, whatever the delay was before the dial of that session.
BackoffReset ==
  /\ pc = "wait_reconn" => delay = initialDelay
  /\ \A i \in 1..(Len(obs) - 1) :
       (obs[i][1] = "read-fail" /\ IsWait(obs[i + 1])) =>
         obs[i + 1][2] = initialDelay

BackoffResetWitness ==
  /\ pc = "wait_reconn"
  /\ \E i \in 1..Len(obs) : IsWait(obs[i]) /\ obs[i][2] > initialDelay

\* C3 (as claimed): whenever a dial attempt is about to start or the worker
\* has returned, every connection dialed so far has had Close() called
\* exactly once.
ReleasedOnceBeforeNextDial ==
  pc \in {"dial", "done"} =>
    \A i \in 1..Len(closes) : closes[i] = 1

\* C4 (as claimed): no WebsocketConnect call begins after the context is
\* cancelled.
NoDialAfterCancel == dialsAfterCancel = 0

\* C4 (amended): after the cancel at most one WebsocketConnect call begins,
\* and only when the cancel came between the outer select's default branch
\* and the call; a select that runs after the cancel is never followed by
\* a dial.
DialAfterCancelOnlyPastCheck ==
  /\ dialsAfterCancel <= 1
  /\ dialsAfterCancel = 1 => cancelPc = "dial"

DialAfterCancelWitness == dialsAfterCancel = 1 /\ pc = "done"

\* C5: when the context is cancelled during a backoff wait, the worker's
\* next step is the return: the delay is not changed and no dial begins.
CancelDuringBackoff ==
  [][(pc \in Waits /\ canceled) =>
       /\ pc' = "done"
       /\ delay' = delay
       /\ dialsAfterCancel' = dialsAfterCancel
       /\ Len(closes') = Len(closes)]_vars

CancelDuringBackoffWitness ==
  pc = "done" /\ cancelPc \in Waits /\ delay > initialDelay

\* C6: within a session the k-th report is for the k-th frame read, and
\* every frame read has been reported before the next read begins.
SinkOrder ==
  /\ \A i \in 1..Len(sink) : sink[i][1] = i
  /\ pc \in {"recv", "reading"} => Len(sink) = nread
  /\ pc = "decode" => Len(sink) = nread - 1

SinkOrderWitness ==
  /\ pc = "reading"
  /\ sink = <<<<1, "envelope">>, <<2, "envelope">>, <<3, "envelope">>>>

OnlyCancellationStops == Stopped => canceled

\* C9 (as claimed): once the context is cancelled the worker eventually
\* stops.
CancelLeadsToStop == canceled ~> Stopped

\* C10: as long as the dial and read outcomes are those of the scenario
\* (dial fails, dial fails, dial succeeds, read fails), the observer sees
\* dial-fail, wait d0, dial-fail, wait 2*d0, dial-success, read-fail,
\* wait d0.
ScenarioOutcomes ==
  <<<<"dial-fail", 0>>, <<"dial-fail", 0>>, <<"dial-success", 0>>,
    <<"read-fail", 0>>>>

ScenarioObserved ==
  <<<<"dial-fail", 0>>, <<"wait", initialDelay>>,
    <<"dial-fail", 0>>, <<"wait", 2 * initialDelay>>,
    <<"dial-success", 0>>, <<"read-fail", 0>>, <<"wait", initialDelay>>>>

ScenarioTrace ==
  IsPrefix(SelectSeq(obs, NotWait), ScenarioOutcomes) =>
    IsPrefix(obs, ScenarioObserved)

ScenarioTraceWitness == obs = ScenarioObserved

IsDial(e) == e[1] \in {"dial-fail", "dial-success"}
QuotedLayout == <<Quote>> \o eventTimeLayout \o <<Quote>>

\* C11 (as claimed): decoding a frame never panics.
DecodeNeverPanics == pc # "panicked"

\* C12 (as claimed): a frame whose timestamp value is present and is not
\* the layout in quotes is reported as a decode error, and no envelope is
\* produced from it.
TimestampMismatchIsError ==
  [][(/\ pc = "decode"
      /\ message.json
      /\ message.timestamp # Absent
      /\ message.timestamp # QuotedLayout
      /\ pc' # pc) =>
       /\ pc' = "recv"
       /\ sink' = Append(sink, <<nread, "decode-error">>)
       /\ event' = NoEvent]_vars

\* C13 (as claimed): every envelope a decode has produced has a non-empty
\* eventType.
EventTypePresent == event # NoEvent => event.eventType # ""

\* C14 (as claimed): outside the decode of a frame, the sink has been
\* invoked exactly once for each frame read on the connection, in order,
\* and not otherwise.
SinkOncePerFrame ==
  pc # "decode" =>
    /\ Len(sink) = nread
    /\ \A i \in 1..Len(sink) : sink[i][1] = i

\* C15: the delay is always between the floor and the ceiling, the ceiling
\* is 60 times the floor, and every wait performed used a delay within
\* these bounds.
DelayBounds ==
  /\ maxDelay = 60 * initialDelay
  /\ initialDelay <= delay
  /\ delay <= maxDelay
  /\ \A i \in 1..Len(obs) :
       IsWait(obs[i]) => (initialDelay <= obs[i][2] /\ obs[i][2] <= maxDelay)

DelayBoundsWitness ==
  pc = "loop" /\ fails = 8 /\ delay = maxDelay /\ ~canceled

\* C16: when the receive loop's select sees the cancel, the worker's next
\* step is the return, the held connection is closed by it, and no read,
\* wait or dial happens.
CancelAtReceiveLoop ==
  [][(pc = "recv" /\ canceled) =>
       /\ pc' = "done"
       /\ closes[wsConn] = 0
       /\ closes'[wsConn] >= 1
       /\ nread' = nread
       /\ delay' = delay
       /\ Len(closes') = Len(closes)
       /\ dialsAfterCancel' = dialsAfterCancel]_vars

CancelAtReceiveLoopWitness ==
  pc = "done" /\ wsConn # 0 /\ closes[wsConn] = 2 /\ nread >= 1

\* C17: once the function has returned, every connection a dial returned
\* has had Close() called at least once.
NoLeakAtExit ==
  pc = "done" => \A i \in 1..Len(closes) : closes[i] >= 1

NoLeakAtExitWitness ==
  pc = "done" /\ Len(closes) >= 2 /\ cancelPc = "wait_dial"

\* C18: between two consecutive dial attempts exactly one backoff wait ran
\* to completion, and a dial attempt that is about to start after an
\* earlier one has exactly one completed wait behind it.
NoHotReconnect ==
  /\ \A i \in 1..Len(obs) : \A j \in (i + 1)..Len(obs) :
       (/\ IsDial(obs[i])
        /\ IsDial(obs[j])
        /\ \A k \in (i + 1)..(j - 1) : ~IsDial(obs[k])) =>
         Cardinality({k \in (i + 1)..(j - 1) : IsWait(obs[k])}) = 1
  /\ \A i \in 1..Len(obs) :
       (/\ pc = "dial"
        /\ Len(obs) < MaxObs
        /\ IsDial(obs[i])
        /\ \A k \in (i + 1)..Len(obs) : ~IsDial(obs[k])) =>
         Cardinality({k \in (i + 1)..Len(obs) : IsWait(obs[k])}) = 1

NoHotReconnectWitness ==
  \E i \in 1..(Len(obs) - 2) :
    /\ obs[i][1] = "read-fail"
    /\ IsWait(obs[i + 1])
    /\ IsDial(obs[i + 2])

\* C19: after the cancel at most one frame is read and reported, and only
\* by the read that had been started before the cancel; no read is started
\* once the cancel has fired.
OneReadAfterCancel ==
  /\ readsAfterCancel <= 1
  /\ readsAfterCancel = 1 => cancelPc = "reading"
  /\ (canceled /\ pc = "reading") => (cancelPc = "reading" /\ readsAfterCancel = 0)

OneReadAfterCancelWitness ==
  readsAfterCancel = 1 /\ pc = "done" /\ Len(sink) = nread /\ nread >= 2

\* C20: while the worker holds a session the delay is the floor delay.
ConnectedDelayIsFloor == Connected => delay = initialDelay

ConnectedDelayWitness ==
  /\ pc = "recv"
  /\ Len(sink) >= 2
  /\ \E i \in 1..Len(obs) : IsWait(obs[i]) /\ obs[i][2] > initialDelay

====
